---- MODULE Spec2Model ----
(***************************************************************************)
(* HubSpot integration (backend/integrations/hubspot.py): the OAuth2       *)
(* authorization-code flow over a key-value store, and the paginated       *)
(* aggregation of CRM records into integration items.                      *)
(*                                                                         *)
(* Text is a sequence of one-character strings, so that serialisation,     *)
(* URL encoding, key formatting and suffix stripping are computed          *)
(* character by character.  A Python value is a record [t, s, d]: its      *)
(* type tag, its text (str, int) and its entries (dict: a sequence of      *)
(* <<key, value>> pairs in insertion order; list: a sequence of values).   *)
(*                                                                         *)
(* The store's 600 s expiry is not modelled: every run is one that ends    *)
(* before a record written in it expires.                                  *)
(***************************************************************************)
EXTENDS Integers, Sequences, FiniteSets, Bags, TLC

(* ------------------------------ values ------------------------------- *)

None == [t |-> "none", s |-> <<>>, d |-> <<>>]

Str(s) == [t |-> "str", s |-> s, d |-> <<>>]

Num(s) == [t |-> "int", s |-> s, d |-> <<>>]

Dict(d) == [t |-> "dict", s |-> <<>>, d |-> d]

List(d) == [t |-> "list", s |-> <<>>, d |-> d]

\* Python truth value: None, "", 0, {} and [] are false.
Truthy(v) ==
    CASE v.t = "none" -> FALSE
      [] v.t = "str"  -> v.s # <<>>
      [] v.t = "int"  -> v.s # <<"0">>
      [] OTHER        -> v.d # <<>>

\* dict.get(key): the value of the last entry under key, None without one.
RECURSIVE GetFrom(_, _, _)
GetFrom(d, key, i) ==
    IF i = 0 THEN None
    ELSE IF d[i][1] = key THEN d[i][2]
    ELSE GetFrom(d, key, i - 1)

Get(v, key) == GetFrom(v.d, key, Len(v.d))

HasKey(v, key) == \E i \in 1..Len(v.d) : v.d[i][1] = key

\* str(v) as an f-string renders it.
Format(v) ==
    CASE v.t = "none" -> <<"N","o","n","e">>
      [] v.t \in {"str", "int"} -> v.s
      [] OTHER -> <<"?">>

(* ------------------------------- JSON --------------------------------- *)

Quote == "\""

Backslash == "\\"

Digits == {"0", "1", "2", "3", "4", "5", "6", "7", "8", "9"}

\* json.dumps of a str: quotes and backslashes are escaped.
RECURSIVE EscapeFrom(_, _)
EscapeFrom(s, i) ==
    IF i > Len(s) THEN <<>>
    ELSE (IF s[i] \in {Quote, Backslash} THEN <<Backslash, s[i]>> ELSE <<s[i]>>)
         \o EscapeFrom(s, i + 1)

DumpsStr(s) == <<Quote>> \o EscapeFrom(s, 1) \o <<Quote>>

DumpsScalar(v) ==
    CASE v.t = "none" -> <<"n","u","l","l">>
      [] v.t = "str"  -> DumpsStr(v.s)
      [] v.t = "int"  -> v.s
      [] OTHER        -> <<"[","]">>

\* The entries of a dict joined by ", ", each as "key": value.
RECURSIVE DumpsItems(_, _)
DumpsItems(d, i) ==
    IF i > Len(d) THEN <<>>
    ELSE (IF i > 1 THEN <<","," ">> ELSE <<>>)
         \o DumpsStr(d[i][1]) \o <<":"," ">> \o DumpsScalar(d[i][2])
         \o DumpsItems(d, i + 1)

\* json.dumps with its default separators, for the values the module
\* serialises: a dict of scalars, or a scalar.
Dumps(v) ==
    IF v.t = "dict" THEN <<"{">> \o DumpsItems(v.d, 1) \o <<"}">>
    ELSE DumpsScalar(v)

RECURSIVE SkipWs(_, _)
SkipWs(s, i) ==
    IF i <= Len(s) /\ s[i] = " " THEN SkipWs(s, i + 1) ELSE i

Fail == [ok |-> FALSE, v |-> None, i |-> 0]

\* The JSON string whose opening quote is at i - 1: its text up to the
\* closing quote, escapes undone.
RECURSIVE ScanStr(_, _, _)
ScanStr(s, i, acc) ==
    IF i > Len(s) THEN Fail
    ELSE IF s[i] = Quote THEN [ok |-> TRUE, v |-> Str(acc), i |-> i + 1]
    ELSE IF s[i] = Backslash
         THEN IF i + 1 <= Len(s) /\ s[i + 1] \in {Quote, Backslash, "/"}
              THEN ScanStr(s, i + 2, Append(acc, s[i + 1]))
              ELSE Fail
    ELSE ScanStr(s, i + 1, Append(acc, s[i]))

RECURSIVE ScanInt(_, _, _)
ScanInt(s, i, acc) ==
    IF i <= Len(s) /\ s[i] \in Digits THEN ScanInt(s, i + 1, Append(acc, s[i]))
    ELSE [ok |-> TRUE, v |-> Num(acc), i |-> i]

StartsWith(s, i, w) ==
    /\ i + Len(w) - 1 <= Len(s)
    /\ \A k \in 1..Len(w) : s[i + k - 1] = w[k]

\* A scalar starting at i: a string, null, a number or the empty list.
ParseScalar(s, i) ==
    IF i > Len(s) THEN Fail
    ELSE IF s[i] = Quote THEN ScanStr(s, i + 1, <<>>)
    ELSE IF StartsWith(s, i, <<"n","u","l","l">>) THEN [ok |-> TRUE, v |-> None, i |-> i + 4]
    ELSE IF StartsWith(s, i, <<"[","]">>) THEN [ok |-> TRUE, v |-> List(<<>>), i |-> i + 2]
    ELSE IF s[i] \in Digits THEN ScanInt(s, i, <<>>)
    ELSE Fail

\* dict insertion: a repeated key keeps its place and takes the new value.
SetKey(d, key, val) ==
    IF \E k \in 1..Len(d) : d[k][1] = key
    THEN [k \in 1..Len(d) |-> IF d[k][1] = key THEN <<key, val>> ELSE d[k]]
    ELSE Append(d, <<key, val>>)

\* The members of an object from i (after "{" or ","), up to its "}".
RECURSIVE ParseMembers(_, _, _)
ParseMembers(s, i, acc) ==
    LET k == SkipWs(s, i)
        key == IF k <= Len(s) /\ s[k] = Quote THEN ScanStr(s, k + 1, <<>>) ELSE Fail
        c == SkipWs(s, key.i)
        val == IF key.ok /\ c <= Len(s) /\ s[c] = ":"
               THEN ParseScalar(s, SkipWs(s, c + 1)) ELSE Fail
        e == SkipWs(s, val.i)
    IN  IF ~val.ok \/ e > Len(s) THEN Fail
        ELSE IF s[e] = "," THEN ParseMembers(s, e + 1, SetKey(acc, key.v.s, val.v))
        ELSE IF s[e] = "}"
             THEN [ok |-> TRUE, v |-> Dict(SetKey(acc, key.v.s, val.v)), i |-> e + 1]
        ELSE Fail

ParseValue(s, i) ==
    IF i <= Len(s) /\ s[i] = "{"
    THEN IF SkipWs(s, i + 1) <= Len(s) /\ s[SkipWs(s, i + 1)] = "}"
         THEN [ok |-> TRUE, v |-> Dict(<<>>), i |-> SkipWs(s, i + 1) + 1]
         ELSE ParseMembers(s, i + 1, <<>>)
    ELSE ParseScalar(s, i)

\* json.loads(x): [ok, v]; ok is FALSE where Python raises (x is None, or
\* its text is no JSON document).  Objects hold scalars, as every document
\* of the model does.
Loads(x) ==
    IF x.t # "str" THEN [ok |-> FALSE, v |-> None]
    ELSE LET r == ParseValue(x.s, SkipWs(x.s, 1))
         IN  IF r.ok /\ SkipWs(x.s, r.i) > Len(x.s)
             THEN [ok |-> TRUE, v |-> r.v]
             ELSE [ok |-> FALSE, v |-> None]

(* ---------------------------- URL encoding ---------------------------- *)

Letters ==
    {"a","b","c","d","e","f","g","h","i","j","k","l","m","n","o","p","q","r",
     "s","t","u","v","w","x","y","z","A","B","C","D","E","F","G","H","I","J",
     "K","L","M","N","O","P","Q","R","S","T","U","V","W","X","Y","Z"}

\* The characters urllib.parse.quote_plus leaves as they are.
Unreserved == Letters \cup Digits \cup {"_", ".", "-", "~"}

\* The percent escapes of the other characters that occur.
PercentTable ==
    << <<Quote, <<"%","2","2">>>>, <<"%", <<"%","2","5">>>>, <<"&", <<"%","2","6">>>>, <<"+", <<"%","2","B">>>>,
       <<",", <<"%","2","C">>>>, <<"/", <<"%","2","F">>>>, <<":", <<"%","3","A">>>>, <<"=", <<"%","3","D">>>>,
       <<"?", <<"%","3","F">>>>, <<"[", <<"%","5","B">>>>, <<Backslash, <<"%","5","C">>>>,
       <<"]", <<"%","5","D">>>>, <<"{", <<"%","7","B">>>>, <<"}", <<"%","7","D">>>> >>

PercentOf(c) ==
    IF \E k \in 1..Len(PercentTable) : PercentTable[k][1] = c
    THEN PercentTable[CHOOSE k \in 1..Len(PercentTable) : PercentTable[k][1] = c][2]
    ELSE <<"%","3","F">>

\* The concatenation of the sequences ss[lo..hi].
RECURSIVE Flat(_, _, _)
Flat(ss, lo, hi) ==
    IF lo > hi THEN <<>>
    ELSE IF lo = hi THEN ss[lo]
    ELSE Flat(ss, lo, (lo + hi) \div 2) \o Flat(ss, (lo + hi) \div 2 + 1, hi)

\* urllib.parse.quote_plus: a space becomes "+", a reserved character its
\* percent escape.
QuotePlus(s) ==
    Flat([i \in 1..Len(s) |->
             IF s[i] \in Unreserved THEN <<s[i]>>
             ELSE IF s[i] = " " THEN <<"+">>
             ELSE PercentOf(s[i])],
         1, Len(s))

\* urllib.parse.urlencode of a dict of str: name=value pairs joined by "&".
RECURSIVE UrlEncodeFrom(_, _)
UrlEncodeFrom(params, i) ==
    IF i > Len(params) THEN <<>>
    ELSE (IF i > 1 THEN <<"&">> ELSE <<>>)
         \o QuotePlus(params[i][1]) \o <<"=">> \o QuotePlus(Format(params[i][2]))
         \o UrlEncodeFrom(params, i + 1)

UrlEncode(params) == UrlEncodeFrom(params.d, 1)

\* Whether an escape %XX of the table starts at i.
EscapeAt(s, i) ==
    /\ i >= 1 /\ i + 2 <= Len(s) /\ s[i] = "%"
    /\ \E k \in 1..Len(PercentTable) : PercentTable[k][2] = SubSeq(s, i, i + 2)

\* The decoding a query string gets where it is read (the provider that
\* echoes `state`, the framework's request.query_params): "+" is a space,
\* %XX the character it escapes.
UnquotePlus(s) ==
    Flat([i \in 1..Len(s) |->
             IF EscapeAt(s, i)
             THEN <<PercentTable[CHOOSE k \in 1..Len(PercentTable) :
                                    PercentTable[k][2] = SubSeq(s, i, i + 2)][1]>>
             ELSE IF EscapeAt(s, i - 1) \/ EscapeAt(s, i - 2) THEN <<>>
             ELSE IF s[i] = "+" THEN <<" ">>
             ELSE <<s[i]>>],
         1, Len(s))

\* The first position from i that holds c, Len(s) + 1 without one.
Find(s, c, i) ==
    IF \E k \in i..Len(s) : s[k] = c
    THEN CHOOSE k \in i..Len(s) : s[k] = c /\ \A j \in i..(k - 1) : s[j] # c
    ELSE Len(s) + 1

\* The value of query parameter `name` in the query string that starts at
\* i, None when it has none.
RECURSIVE QueryGet(_, _, _)
QueryGet(s, name, i) ==
    IF i > Len(s) THEN None
    ELSE LET e == Find(s, "&", i)
             q == Find(s, "=", i)
         IN  IF q < e /\ UnquotePlus(SubSeq(s, i, q - 1)) = name
             THEN Str(UnquotePlus(SubSeq(s, q + 1, e - 1)))
             ELSE QueryGet(s, name, e + 1)

\* The query parameter `name` of a URL.
UrlParam(url, name) == QueryGet(url, name, Find(url, "?", 1) + 1)

(* --------------------------- configuration ---------------------------- *)

\* The environment's HUBSPOT_CLIENT_ID and HUBSPOT_CLIENT_SECRET: opaque
\* texts, one example of each.
CLIENT_ID == Str(<<"c","l","i","e","n","t","-","i","d">>)

CLIENT_SECRET == Str(<<"s","e","c","r","e","t">>)

REDIRECT_URI == Str(<<"h","t","t","p",":","/","/","l","o","c","a","l","h","o","s","t",":","8","0","0","0","/","i","n","t","e","g","r","a","t","i","o","n","s","/","h","u","b","s","p","o","t","/","o","a","u","t","h","2","c","a","l","l","b","a","c","k">>)

authorization_url == <<"h","t","t","p","s",":","/","/","a","p","p",".","h","u","b","s","p","o","t",".","c","o","m","/","o","a","u","t","h","/","a","u","t","h","o","r","i","z","e">>

scopes ==
    Str(<<"c","o","n","t","a","c","t","s"," ","c","r","m",".","o","b","j","e","c","t","s",".","c","o","n","t","a","c","t","s",".","r","e","a","d"," ","c","r","m",".","o","b","j","e","c","t","s",".","c","o","m","p","a","n","i","e","s",".","r","e","a","d"," ">>
        \o <<"c","r","m",".","o","b","j","e","c","t","s",".","d","e","a","l","s",".","r","e","a","d"," ","c","r","m",".","o","b","j","e","c","t","s",".","l","i","n","e","_","i","t","e","m","s",".","r","e","a","d"," ">>
        \o <<"c","r","m",".","o","b","j","e","c","t","s",".","q","u","o","t","e","s",".","r","e","a","d"," ","c","r","m",".","o","b","j","e","c","t","s",".","t","a","s","k","s",".","r","e","a","d"," ","c","r","m",".","o","b","j","e","c","t","s",".","c","a","l","l","s",".","r","e","a","d"," ">>
        \o <<"c","r","m",".","o","b","j","e","c","t","s",".","m","e","e","t","i","n","g","s",".","r","e","a","d"," ","c","r","m",".","o","b","j","e","c","t","s",".","n","o","t","e","s",".","r","e","a","d"," ","c","r","m",".","o","b","j","e","c","t","s",".","e","m","a","i","l","s",".","r","e","a","d">>)

(* ------------------------------ bounds -------------------------------- *)

\* The calls of authorize_hubspot, oauth2callback_hubspot and
\* get_hubspot_credentials that start in one run.
MaxCalls == 4

\* The invocations of one handler that may be in progress at a time.
Callers == {1, 2}

\* (org_id, user_id) of the callers: opaque non-empty texts.
Pairs ==
    { <<Str(<<"a",":","b">>), Str(<<"c">>)>>,
      <<Str(<<"a">>), Str(<<"b",":","c">>)>>,
      <<Str(<<"o"," ","\"","1">>), Str(<<"u","&","\\","+">>)>> }

DigitText == <<"0","1","2","3","4","5","6","7","8","9">>

\* secrets.token_urlsafe(32) of the n-th call: a text no other call draws.
Token(n) == Str(<<"t", DigitText[n + 1]>>)

\* A token that no authorize_hubspot call issued.
ForeignToken == Str(<<"z","z">>)

Tokens == {ForeignToken} \cup {Token(n) : n \in 1..MaxCalls}

\* The JSON body of the token endpoint's 200 response to the n-th request:
\* an object with an access token that no other response carries.
TokenBody(n) ==
    Dict(<< <<<<"a","c","c","e","s","s","_","t","o","k","e","n">>, Str(<<"A", "\"", DigitText[n + 1]>>)>>,
            <<<<"r","e","f","r","e","s","h","_","t","o","k","e","n">>, Str(<<"R">>)>> >>)

TokenBodies == {TokenBody(n) : n \in 1..MaxCalls}

BearerBody == TokenBody(1)

\* Request texts that are no serialized state record.
Malformed == {None, Str(<<"o","o","p","s">>), Str(<<"[","]">>), Str(<<"{","}">>)}

VARIABLES
    store,      \* the key-value store: key text -> value text
    issued,     \* per authorize_hubspot call: the <<org_id, user_id>> it was
                \* called with
    cb,         \* the oauth2callback_hubspot invocations in progress
    gc,         \* the get_hubspot_credentials invocations in progress
    ret,        \* the invocation that completed in the last step, as it ended
    posts,      \* how many token-exchange requests were sent
    spent,      \* state parameters whose record a callback deleted, with no
                \* authorize_hubspot write to that key since
    creds,      \* credential key -> [n, body]: the number of credentials
                \* callbacks wrote under it, and the latest response body
    taken,      \* credential keys a retrieval emptied, no callback write since
    handoffs,   \* the bag of <<key, n>> of the credentials that retrievals returned
    nCalls,     \* calls started
    ipc,        \* get_items_hubspot: where its call is
    given,      \* the credentials it was called with
    outcome,    \* how it ended
    ti,         \* the place of object_type in object_types
    after,      \* fetch_hubspot_objects: the cursor
    all_results,
    list_of_integration_item_metadata,
    reqs,       \* the query parameters of the requests for this object type
    pages,      \* the answers to them
    log,        \* per object type done: the objects fetched, the items made
                \* of them, and what raised
    served,     \* records served
    faults,     \* failing answers
    obj,            \* create_integration_item_metadata_object: the record
    endpoint,       \* the place in object_types of the endpoint it is from
    made            \* the call's result, once it has ended

ovars == <<store, issued, cb, gc, ret, posts, spent, creds, taken, handoffs,
           nCalls>>

cvars == <<obj, endpoint, made>>

avars == <<ipc, given, outcome, ti, after, all_results,
           list_of_integration_item_metadata, reqs, pages, log, served, faults>>

IdleCallback ==
    [pc |-> "idle", state |-> None, error |-> None, user_id |-> None,
     org_id |-> None, saved_state |-> None, posted |-> FALSE, deleted |-> FALSE,
     status |-> 0, body |-> None, outcome |-> "", reuse |-> FALSE, again |-> FALSE]

IdleGet ==
    [pc |-> "idle", user_id |-> None, org_id |-> None, credentials |-> None,
     outcome |-> "", n |-> 0, body |-> None, first |-> FALSE, second |-> FALSE]

\* ret when no invocation ended, when a callback ended as r, and when a
\* retrieval ended as r.
NoReturn == [op |-> "", cb |-> IdleCallback, gc |-> IdleGet]

CallbackEnded(r) == [op |-> "callback", cb |-> r, gc |-> IdleGet]

GetEnded(r) == [op |-> "get", cb |-> IdleCallback, gc |-> r]

(* ------------------------------- store -------------------------------- *)

\* redis_client.add_key_value_redis(key, value, expire=600)
add_key_value_redis(st, key, value) ==
    [k \in DOMAIN st \cup {key} |-> IF k = key THEN value ELSE st[k]]

\* redis_client.get_value_redis(key): the value, None without one.
get_value_redis(st, key) ==
    IF key \in DOMAIN st THEN Str(st[key]) ELSE None

\* redis_client.delete_key_redis(key)
delete_key_redis(st, key) ==
    [k \in DOMAIN st \ {key} |-> st[k]]

StateKey(org_id, user_id) ==
    <<"h","u","b","s","p","o","t","_","s","t","a","t","e",":">> \o Format(org_id) \o <<":">> \o Format(user_id)

CredentialsKey(org_id, user_id) ==
    <<"h","u","b","s","p","o","t","_","c","r","e","d","e","n","t","i","a","l","s",":">> \o Format(org_id) \o <<":">> \o Format(user_id)

(* ------------------------- authorize_hubspot -------------------------- *)

\* Lines 37-41
StateData(token, user_id, org_id) ==
    Dict(<< <<<<"s","t","a","t","e">>, token>>, <<<<"u","s","e","r","_","i","d">>, user_id>>, <<<<"o","r","g","_","i","d">>, org_id>> >>)

\* Line 42: json.dumps(state_data), for every token and caller, computed once.
EncodedState ==
    [token \in Tokens, p \in Pairs |-> Dumps(StateData(token, p[2], p[1]))]

\* Lines 46-51
AuthParams(encoded_state) ==
    Dict(<< <<<<"c","l","i","e","n","t","_","i","d">>, CLIENT_ID>>,
            <<<<"r","e","d","i","r","e","c","t","_","u","r","i">>, REDIRECT_URI>>,
            <<<<"s","c","o","p","e">>, scopes>>,
            <<<<"s","t","a","t","e">>, Str(encoded_state)>> >>)

\* The URL with the serialized record put into the query as it is.
AuthUrlUnquoted(encoded_state) ==
    authorization_url \o <<"?","c","l","i","e","n","t","_","i","d","=">> \o Format(CLIENT_ID)
        \o <<"&","s","t","a","t","e","=">> \o encoded_state

\* Line 53
AuthUrl(encoded_state) ==
    authorization_url \o <<"?">> \o UrlEncode(AuthParams(encoded_state))

\* The state parameter of the URL built for each serialized record, as the
\* provider reads it and echoes it to the callback; computed once.
UrlState ==
    [e \in {EncodedState[x] : x \in DOMAIN EncodedState} |->
        UrlParam(AuthUrl(e), <<"s","t","a","t","e">>)]

\* A token response with no access token.
Tokenless == Dict(<< <<<<"t","o","k","e","n","_","t","y","p","e">>, Str(<<"b","e","a","r","e","r">>)>> >>)

\* The texts json.loads is applied to in a run, and its result on each,
\* computed once.
Texts ==
    {UrlState[e] : e \in DOMAIN UrlState}
    \cup {Str(e) : e \in DOMAIN UrlState}
    \cup {Str(Dumps(b)) : b \in TokenBodies}
    \cup Malformed
    \cup {Str(Dumps(Tokenless)), Tokenless}
    \cup TokenBodies

Loaded == [x \in Texts |-> Loads(x)]

\* The store key a state parameter names, as the callback derives it.
KeyOfState(state) ==
    StateKey(Get(Loaded[state].v, <<"o","r","g","_","i","d">>), Get(Loaded[state].v, <<"u","s","e","r","_","i","d">>))

\* Whether json.loads(state) gives a dict, so that the callback reads its
\* token and identifiers.
WellFormed(state) == Loaded[state].ok /\ Loaded[state].v.t = "dict"

NamesKey(state, key) == WellFormed(state) /\ KeyOfState(state) = key

\* The n-th authorize_hubspot call: its arguments, the key and the value it
\* stored, and the state parameter of the URL it returned.
Issued(n) ==
    LET encoded_state == EncodedState[Token(n), issued[n]]
    IN  [org_id |-> issued[n][1], user_id |-> issued[n][2],
         key |-> StateKey(issued[n][1], issued[n][2]),
         stored |-> encoded_state,
         state |-> UrlState[encoded_state]]

authorize_hubspot(user_id, org_id) ==
    /\ nCalls < MaxCalls
    /\ nCalls' = nCalls + 1
    /\ LET encoded_state == EncodedState[Token(Len(issued) + 1), <<org_id, user_id>>]
           key == StateKey(org_id, user_id)
       IN  /\ store' = add_key_value_redis(store, key, encoded_state)
           /\ issued' = Append(issued, <<org_id, user_id>>)
           /\ spent' = {s \in spent : ~NamesKey(s, key)}
    /\ ret' = NoReturn
    /\ UNCHANGED <<cb, gc, posts, creds, taken, handoffs>>
    /\ UNCHANGED <<avars, cvars>>

(* ----------------------- oauth2callback_hubspot ----------------------- *)

\* A serialized record that the caller of the callback made up: any caller's
\* identifiers, with a token of its own or one that was issued.
Forged ==
    { Str(EncodedState[token, p]) :
        token \in {ForeignToken} \cup {Token(n) : n \in 1..Len(issued)},
        p \in Pairs }

\* The requests a callback may get: the redirect of an issued URL, with its
\* state parameter and maybe the provider's error, or a request its sender
\* made up.
Requests ==
    {<<Issued(n).state, error>> :
        n \in 1..Len(issued), error \in {None, Str(<<"a","c","c","e","s","s","_","d","e","n","i","e","d">>)}}
    \cup {<<state, None>> : state \in Forged \cup Malformed}

\* The check with the comparison of the tokens left out.
StatePresent(original_state, saved_state) == Truthy(saved_state)

\* Line 70: the stored record is there and holds the token of the request.
StateMatches(original_state, saved_state) ==
    /\ Truthy(saved_state)
    /\ original_state = Get(Loaded[saved_state].v, <<"s","t","a","t","e">>)

\* Whether another invocation that carries `state` is in progress.
InProgress(i, state) ==
    \E j \in Callers \ {i} : cb[j].pc = "gather" /\ cb[j].state = state

\* Lines 57-71: the error parameter, the parse of `state`, the lookup of the
\* stored record and the state check.
CallbackStart(i, state, error) ==
    /\ cb[i].pc = "idle"
    /\ \A j \in Callers : j < i => cb[j].pc = "gather"
    /\ nCalls < MaxCalls
    /\ nCalls' = nCalls + 1
    /\ LET request == [IdleCallback EXCEPT
                          !.state = state, !.error = error,
                          !.reuse = state \in spent /\ ~InProgress(i, state),
                          !.again = ret.op = "callback" /\ ret.cb.state = state]
           parsed == Loaded[state]
           state_data == parsed.v
           original_state == Get(state_data, <<"s","t","a","t","e">>)
           user_id == Get(state_data, <<"u","s","e","r","_","i","d">>)
           org_id == Get(state_data, <<"o","r","g","_","i","d">>)
           saved_state == get_value_redis(store, StateKey(org_id, user_id))
           looked == [request EXCEPT !.user_id = user_id, !.org_id = org_id,
                                     !.saved_state = saved_state]
           raise(r, detail) ==
               /\ ret' = CallbackEnded([r EXCEPT !.pc = "done", !.outcome = detail])
               /\ UNCHANGED cb
       IN  IF Truthy(error) THEN raise(request, "AuthorizationDenied")
           ELSE IF ~WellFormed(state) THEN raise(request, "Exception")
           ELSE IF ~StateMatches(original_state, saved_state)
                THEN raise(looked, "StateMismatch")
           ELSE /\ cb' = [cb EXCEPT ![i] = [looked EXCEPT !.pc = "gather"]]
                /\ ret' = NoReturn
    /\ UNCHANGED <<store, issued, gc, posts, spent, creds, taken, handoffs>>
    /\ UNCHANGED <<avars, cvars>>

\* Lines 75-87: the token-exchange request and the provider's response.
CallbackPost(i, status, body) ==
    /\ cb[i].pc = "gather" /\ ~cb[i].posted
    /\ cb' = [cb EXCEPT ![i].posted = TRUE, ![i].status = status, ![i].body = body]
    /\ posts' = posts + 1
    /\ ret' = NoReturn
    /\ UNCHANGED <<store, issued, gc, spent, creds, taken, handoffs,
                   nCalls>>
    /\ UNCHANGED <<avars, cvars>>

\* The store with the state record left in it.
KeepState(st, org_id, user_id) == st

\* Line 88: the stored state record is deleted.
ConsumeState(st, org_id, user_id) ==
    delete_key_redis(st, StateKey(org_id, user_id))

CallbackDelete(i) ==
    /\ cb[i].pc = "gather" /\ ~cb[i].deleted
    /\ store' = ConsumeState(store, cb[i].org_id, cb[i].user_id)
    /\ cb' = [cb EXCEPT ![i].deleted = TRUE]
    /\ spent' = spent \cup {cb[i].state}
    /\ ret' = NoReturn
    /\ UNCHANGED <<issued, gc, posts, creds, taken, handoffs, nCalls>>
    /\ UNCHANGED <<avars, cvars>>

\* Line 94: the response body is stored as the credential.
StoreCredentials(st, org_id, user_id, body) ==
    add_key_value_redis(st, CredentialsKey(org_id, user_id), Dumps(body))

\* An exchange that is never taken to have failed.
NeverFailed(status) == FALSE

\* Line 91: the provider did not answer the exchange with 200.
ExchangeFailed(status) == status # 200

\* Lines 91-103, once both halves of the gather are done: a non-200
\* response raises, a 200 response body is stored as the credential.
CallbackFinish(i) ==
    /\ cb[i].pc = "gather" /\ cb[i].posted /\ cb[i].deleted
    /\ cb' = [cb EXCEPT ![i] = IdleCallback]
    /\ IF ExchangeFailed(cb[i].status)
       THEN /\ ret' = CallbackEnded([cb[i] EXCEPT !.pc = "done",
                                                  !.outcome = "TokenExchangeFailed"])
            /\ UNCHANGED <<store, creds, taken>>
       ELSE LET key == CredentialsKey(cb[i].org_id, cb[i].user_id)
            IN  /\ store' = StoreCredentials(store, cb[i].org_id, cb[i].user_id,
                                             cb[i].body)
                /\ creds' = [k \in DOMAIN creds \cup {key} |->
                               IF k # key THEN creds[k]
                               ELSE [n |-> IF k \in DOMAIN creds THEN creds[k].n + 1 ELSE 1,
                                     body |-> cb[i].body]]
                /\ taken' = taken \ {key}
                /\ ret' = CallbackEnded([cb[i] EXCEPT !.pc = "done", !.outcome = "Success"])
    /\ UNCHANGED <<issued, gc, posts, spent, handoffs, nCalls>>
    /\ UNCHANGED <<avars, cvars>>

(* ----------------------- get_hubspot_credentials ---------------------- *)

\* Whether another retrieval under `key` is in progress.
GetInProgress(j, key) ==
    \E k \in Callers \ {j} :
        gc[k].pc = "delete" /\ CredentialsKey(gc[k].org_id, gc[k].user_id) = key

\* Lines 106-111: the lookup of the credential and its parse.
GetStart(j, user_id, org_id) ==
    /\ gc[j].pc = "idle"
    /\ \A k \in Callers : k < j => gc[k].pc = "delete"
    /\ nCalls < MaxCalls
    /\ nCalls' = nCalls + 1
    /\ LET key == CredentialsKey(org_id, user_id)
           credentials == get_value_redis(store, key)
           stored == key \in DOMAIN store /\ key \in DOMAIN creds
           request == [IdleGet EXCEPT
                          !.user_id = user_id, !.org_id = org_id,
                          !.n = IF stored THEN creds[key].n ELSE 0,
                          !.body = IF stored THEN creds[key].body ELSE None,
                          !.first = stored /\ key \notin taken /\ ~GetInProgress(j, key),
                          !.second = key \in taken /\ ~GetInProgress(j, key)]
           raise(r) ==
               /\ ret' = GetEnded([r EXCEPT !.pc = "done", !.outcome = "NoCredentials"])
               /\ UNCHANGED gc
       IN  IF ~Truthy(credentials) THEN raise(request)
           ELSE IF ~Truthy(Loaded[credentials].v) THEN raise(request)
           ELSE /\ gc' = [gc EXCEPT ![j] =
                             [request EXCEPT !.pc = "delete",
                                             !.credentials = Loaded[credentials].v]]
                /\ ret' = NoReturn
    /\ UNCHANGED <<store, issued, cb, posts, spent, creds, taken, handoffs>>
    /\ UNCHANGED <<avars, cvars>>

\* The store with the credential left in it.
KeepCredentials(st, org_id, user_id) == st

\* Line 112: the credential is deleted.
ConsumeCredentials(st, org_id, user_id) ==
    delete_key_redis(st, CredentialsKey(org_id, user_id))

\* Lines 112-114: the delete, and the return of the parsed credential.
GetDelete(j) ==
    /\ gc[j].pc = "delete"
    /\ store' = ConsumeCredentials(store, gc[j].org_id, gc[j].user_id)
    /\ gc' = [gc EXCEPT ![j] = IdleGet]
    /\ ret' = GetEnded([gc[j] EXCEPT !.pc = "done", !.outcome = "Returned"])
    /\ taken' = taken \cup {CredentialsKey(gc[j].org_id, gc[j].user_id)}
    /\ handoffs' = handoffs (+) SetToBag({
                          <<CredentialsKey(gc[j].org_id, gc[j].user_id), gc[j].n>>})
    /\ UNCHANGED <<issued, cb, posts, spent, creds, nCalls>>
    /\ UNCHANGED <<avars, cvars>>

(* --------------- create_integration_item_metadata_object -------------- *)

\* dict.get(key, default)
GetOr(v, key, default) == IF HasKey(v, key) THEN Get(v, key) ELSE default

\* x or y
Or(x, y) == IF Truthy(x) THEN x ELSE y

LowerText == <<"a","b","c","d","e","f","g","h","i","j","k","l","m","n","o","p","q","r","s","t","u","v","w","x","y","z">>

UpperText == <<"A","B","C","D","E","F","G","H","I","J","K","L","M","N","O","P","Q","R","S","T","U","V","W","X","Y","Z">>

Upper(c) ==
    IF \E k \in 1..26 : LowerText[k] = c
    THEN UpperText[CHOOSE k \in 1..26 : LowerText[k] = c]
    ELSE c

Lower(c) ==
    IF \E k \in 1..26 : UpperText[k] = c
    THEN LowerText[CHOOSE k \in 1..26 : UpperText[k] = c]
    ELSE c

\* str.title(): a letter that follows no letter is upper case, the other
\* letters are lower case.
Title(s) ==
    [i \in 1..Len(s) |->
        IF i = 1 \/ s[i - 1] \notin Letters THEN Upper(s[i]) ELSE Lower(s[i])]

\* str.rstrip(chars): the text without its trailing characters of `chars`.
RECURSIVE RStrip(_, _)
RStrip(s, chars) ==
    IF s # <<>> /\ s[Len(s)] \in chars THEN RStrip(SubSeq(s, 1, Len(s) - 1), chars)
    ELSE s

RECURSIVE LStrip(_, _)
LStrip(s, chars) ==
    IF s # <<>> /\ s[1] \in chars THEN LStrip(Tail(s), chars) ELSE s

\* str.strip()
Strip(s) == LStrip(RStrip(s, {" "}), {" "})

\* An attribute access that Python rejects: .get on a value that is no dict.
NoGet(v) == v.t # "dict"

\* integrations.integration_item.IntegrationItem(...)
IntegrationItem(id, type, name, creation_time, last_modified_time) ==
    [id |-> id, type |-> type, name |-> name, creation_time |-> creation_time,
     last_modified_time |-> last_modified_time,
     parent_id |-> None, parent_path_or_name |-> None]

NoItem == IntegrationItem(None, None, None, None, None)

\* Lines 123-148: the name of a record by its item type.
ItemName(response_json, item_type) ==
    LET properties == GetOr(response_json, <<"p","r","o","p","e","r","t","i","e","s">>, Dict(<<>>))
        id == Format(GetOr(response_json, <<"i","d">>, Str(<<"U","n","k","n","o","w","n">>)))
        firstname == GetOr(properties, <<"f","i","r","s","t","n","a","m","e">>, Str(<<>>))
        lastname == GetOr(properties, <<"l","a","s","t","n","a","m","e">>, Str(<<>>))
        email == GetOr(properties, <<"e","m","a","i","l">>, Str(<<>>))
    IN  IF item_type = <<"c","o","n","t","a","c","t">>
        THEN IF Truthy(firstname) \/ Truthy(lastname)
             THEN Str(Strip(Format(firstname) \o <<" ">> \o Format(lastname)))
             ELSE IF Truthy(email) THEN email
             ELSE Str(<<"C","o","n","t","a","c","t"," ">> \o id)
        ELSE IF item_type = <<"c","o","m","p","a","n","y">>
        THEN Or(Get(properties, <<"n","a","m","e">>),
                Or(Get(properties, <<"d","o","m","a","i","n">>), Str(<<"C","o","m","p","a","n","y"," ">> \o id)))
        ELSE IF item_type = <<"d","e","a","l">>
        THEN Or(Get(properties, <<"d","e","a","l","n","a","m","e">>), Str(<<"D","e","a","l"," ">> \o id))
        ELSE Or(Get(properties, <<"n","a","m","e">>),
                Or(Get(properties, <<"s","u","b","j","e","c","t">>),
                   Str(Title(item_type) \o <<" ">> \o id)))

\* Lines 116-164: [raised, item]; raised where Python raises AttributeError
\* (the record, or its `properties`, is no dict).
create_integration_item_metadata_object(response_json, item_type) ==
    IF NoGet(response_json) \/ NoGet(GetOr(response_json, <<"p","r","o","p","e","r","t","i","e","s">>, Dict(<<>>)))
    THEN [raised |-> TRUE, item |-> NoItem]
    ELSE LET properties == GetOr(response_json, <<"p","r","o","p","e","r","t","i","e","s">>, Dict(<<>>))
             created_time == Or(Get(response_json, <<"c","r","e","a","t","e","d","A","t">>),
                                Get(properties, <<"c","r","e","a","t","e","d","a","t","e">>))
             modified_time == Or(Get(response_json, <<"u","p","d","a","t","e","d","A","t">>),
                                 Get(properties, <<"l","a","s","t","m","o","d","i","f","i","e","d","d","a","t","e">>))
         IN  [raised |-> FALSE,
              item |-> IntegrationItem(
                  Str(Format(Get(response_json, <<"i","d">>)) \o <<"_">> \o item_type),
                  Str(item_type),
                  ItemName(response_json, item_type),
                  created_time, modified_time)]

(* ----------------------------- the servers ---------------------------- *)

\* The records of one run, the pages of one object type, the failing
\* answers of one run, and the object types, first in the list, that the
\* portal holds records of or fails for: the later ones answer with one
\* empty page.
MaxRecords == 2

MaxPopulated == 3

MaxPages == 2

MaxFaults == 1

\* Raw records: the two of the examples, and one whose properties are null.
Records ==
    { Dict(<< <<<<"i","d">>, Str(<<"1">>)>>,
              <<<<"p","r","o","p","e","r","t","i","e","s">>, Dict(<< <<<<"f","i","r","s","t","n","a","m","e">>, Str(<<"A">>)>>,
                                        <<<<"l","a","s","t","n","a","m","e">>, Str(<<"B">>)>> >>)>> >>),
      Dict(<< <<<<"i","d">>, Str(<<"4","2">>)>>, <<<<"p","r","o","p","e","r","t","i","e","s">>, Dict(<<>>)>> >>),
      Dict(<< <<<<"i","d">>, Str(<<"3">>)>>, <<<<"p","r","o","p","e","r","t","i","e","s">>, None>> >>) }

ResultLists ==
    {<<>>} \cup {<<a>> : a \in Records} \cup {<<a, b>> : a \in Records, b \in Records}

\* The values of paging.next.after: cursors, and values that count as false.
Cursors == {Str(<<"1","0">>), Str(<<>>), Num(<<"0">>)}

Page(results, paging) ==
    [raises |-> FALSE, status |-> 200,
     data |-> Dict(<< <<<<"r","e","s","u","l","t","s">>, List(results)>> >> \o paging)]

\* The answers to one request: a page with or without a cursor, a page whose
\* paging is null, a status other than 200, and no answer (requests.get
\* raises).
Responses ==
    { Page(results, paging) :
        results \in ResultLists,
        paging \in {<<>>} \cup
            { << <<<<"p","a","g","i","n","g">>, Dict(<< <<<<"n","e","x","t">>, Dict(<< <<<<"a","f","t","e","r">>, c>> >>)>> >>)>> >> :
                c \in Cursors } }
    \cup { Page(<<>>, << <<<<"p","a","g","i","n","g">>, None>> >>),
           [raises |-> FALSE, status |-> 429, data |-> None],
           [raises |-> TRUE, status |-> 0, data |-> None] }

\* What get_items_hubspot is called with: the text of a credential and of
\* one with no access token, and the two as get_hubspot_credentials returns
\* them, parsed.
CredentialInputs ==
    { Str(Dumps(BearerBody)),
      Str(Dumps(Tokenless)),
      BearerBody,
      Tokenless }

(* ------------------------ fetch_hubspot_objects ----------------------- *)

\* Line 166: the default page size.
limit == Num(<<"1","0","0">>)

\* Lines 178-180: the query parameters of the next request.
FetchParams(cursor) ==
    IF Truthy(cursor)
    THEN Dict(<< <<<<"l","i","m","i","t">>, limit>>, <<<<"a","f","t","e","r">>, cursor>> >>)
    ELSE Dict(<< <<<<"l","i","m","i","t">>, limit>> >>)

\* A loop that no cursor ends.
NeverLast(cursor) == FALSE

\* Line 196: `if not after: break`
LastPage(cursor) == ~Truthy(cursor)

\* A break that drops the records fetched so far.
BreakEmpty(fetched) ==
    [raised |-> FALSE, done |-> TRUE, after |-> None, all_results |-> <<>>]

\* Lines 184-186 and 199: a non-200 status ends the loop, and the records of
\* the pages before it are returned.
Break(fetched) ==
    [raised |-> FALSE, done |-> TRUE, after |-> None, all_results |-> fetched]

\* Lines 182-197, one pass of the loop on a response [raises, status, data]:
\* [raised, done, after, all_results].  requests.get raises, or the body's
\* paging is no dict: raised.  A non-200 status, or a page with no cursor
\* that counts as true: done.
FetchPass(fetched, response) ==
    LET data == response.data
        results == GetOr(data, <<"r","e","s","u","l","t","s">>, List(<<>>))
        paging == GetOr(data, <<"p","a","g","i","n","g">>, Dict(<<>>))
        next == GetOr(paging, <<"n","e","x","t">>, Dict(<<>>))
        stop(r, a) == [raised |-> r, done |-> TRUE, after |-> a, all_results |-> fetched]
    IN  IF response.raises THEN stop(TRUE, None)
        ELSE IF response.status # 200 THEN Break(fetched)
        ELSE IF NoGet(data) \/ results.t # "list" \/ NoGet(paging) \/ NoGet(next)
             THEN stop(TRUE, None)
        ELSE [raised |-> FALSE,
              done |-> LastPage(Get(next, <<"a","f","t","e","r">>)),
              after |-> Get(next, <<"a","f","t","e","r">>),
              all_results |-> fetched \o results.d]

(* -------------------------- get_items_hubspot ------------------------- *)

\* Line 212
object_types ==
    << <<"c","o","n","t","a","c","t","s">>, <<"c","o","m","p","a","n","i","e","s">>, <<"d","e","a","l","s">>, <<"t","i","c","k","e","t","s">>, <<"t","a","s","k","s">>, <<"c","a","l","l","s">>,
       <<"m","e","e","t","i","n","g","s">>, <<"n","o","t","e","s">>, <<"e","m","a","i","l","s">> >>

\* Line 221: object_type.rstrip('s')
ItemType(object_type) == RStrip(object_type, {"s"})

\* The item put at the head of the list.
PrependItem(acc, item) == <<item>> \o acc

\* Line 223: list_of_integration_item_metadata.append(integration_item)
AppendItem(acc, item) == Append(acc, item)

\* Lines 218-223: the items of objects[k..], appended to acc until a record
\* raises: [raised, items].
RECURSIVE ConvertFrom(_, _, _, _)
ConvertFrom(objects, item_type, k, acc) ==
    IF k > Len(objects) THEN [raised |-> FALSE, items |-> acc]
    ELSE LET r == create_integration_item_metadata_object(objects[k], item_type)
         IN  IF r.raised THEN [raised |-> TRUE, items |-> acc]
             ELSE ConvertFrom(objects, item_type, k + 1, AppendItem(acc, r.item))

\* Lines 203-212: the parse of the credentials and the access token.
ItemsStart(credentials) ==
    /\ ipc = "idle"
    /\ LET parsed == Loaded[credentials]
       IN  IF ~parsed.ok \/ NoGet(parsed.v)
           THEN ipc' = "done" /\ outcome' = "Exception"
           ELSE IF ~Truthy(Get(parsed.v, <<"a","c","c","e","s","s","_","t","o","k","e","n">>))
           THEN ipc' = "done" /\ outcome' = "MissingAccessToken"
           ELSE ipc' = "fetch" /\ outcome' = ""
    /\ given' = credentials
    /\ UNCHANGED <<ti, after, all_results, list_of_integration_item_metadata,
                   reqs, pages, log, served, faults>>
    /\ UNCHANGED <<ovars, cvars>>

\* Lines 214 and 229-231: the loop goes on to the next object type, and
\* returns the list after the last.
NextType ==
    /\ IF ti = Len(object_types)
       THEN ipc' = "done" /\ outcome' = "Returned" /\ ti' = ti
       ELSE ipc' = "fetch" /\ outcome' = outcome /\ ti' = ti + 1
    /\ after' = None
    /\ all_results' = <<>>

\* The exception of one object type ends the call.
Propagate ==
    /\ ipc' = "done" /\ outcome' = "Exception" /\ ti' = ti
    /\ after' = None
    /\ all_results' = <<>>

\* Lines 225-227: the exception is caught and printed, and the loop goes on.
Continue == NextType

\* The servers' answers are cut where the bounds say: the object types that
\* answer with more than an empty page, the records served in a run, the
\* failures in a run, and the pages of one type.
Admitted(response) ==
    LET r == FetchPass(<<>>, response)
    IN  /\ ti > MaxPopulated => response = Page(<<>>, <<>>)
        /\ served + Len(r.all_results) <= MaxRecords
        /\ (r.raised \/ response.status # 200) => faults < MaxFaults
        /\ ~r.done => Len(pages) + 1 < MaxPages

\* One request of fetch_hubspot_objects and its response.  A response that
\* raises is caught at lines 225-227, and the type is left.
FetchPage(response) ==
    /\ ipc = "fetch"
    /\ Admitted(response)
    /\ LET r == FetchPass(all_results, response)
       IN  IF r.raised
           THEN /\ log' = Append(log, [fetched |-> TRUE,
                                       objects |-> <<>>, items |-> <<>>,
                                       raised |-> "fetch"])
                /\ reqs' = <<>>
                /\ pages' = <<>>
                /\ Continue
           ELSE /\ log' = log
                /\ reqs' = Append(reqs, FetchParams(after))
                /\ pages' = Append(pages, response)
                /\ after' = r.after
                /\ all_results' = r.all_results
                /\ ipc' = IF r.done THEN "convert" ELSE "fetch"
                /\ UNCHANGED <<ti, outcome>>
    /\ served' = served + Len(FetchPass(<<>>, response).all_results)
    /\ faults' = faults + (IF FetchPass(<<>>, response).raised \/ response.status # 200
                           THEN 1 ELSE 0)
    /\ UNCHANGED <<list_of_integration_item_metadata, given>>
    /\ UNCHANGED <<ovars, cvars>>

\* Lines 218-227 for the objects that fetch_hubspot_objects returned.
ConvertObjects ==
    /\ ipc = "convert"
    /\ LET r == ConvertFrom(all_results, ItemType(object_types[ti]), 1, <<>>)
       IN  /\ list_of_integration_item_metadata' =
                  list_of_integration_item_metadata \o r.items
           /\ log' = Append(log, [fetched |-> reqs # <<>>,
                                  objects |-> all_results, items |-> r.items,
                                  raised |-> IF r.raised THEN "convert" ELSE ""])
           /\ IF r.raised THEN Continue ELSE NextType
    /\ reqs' = <<>>
    /\ pages' = <<>>
    /\ UNCHANGED <<served, faults, given>>
    /\ UNCHANGED <<ovars, cvars>>

(* --------------------------- specifications --------------------------- *)

vars == <<ovars, avars, cvars>>

\* No call has started; the store is empty.
Idle ==
    /\ store = <<>>
    /\ issued = <<>>
    /\ cb = [i \in Callers |-> IdleCallback]
    /\ gc = [j \in Callers |-> IdleGet]
    /\ ret = NoReturn
    /\ posts = 0
    /\ spent = {}
    /\ creds = <<>>
    /\ taken = {}
    /\ handoffs = EmptyBag
    /\ nCalls = 0
    /\ ipc = "idle"
    /\ given = None
    /\ outcome = ""
    /\ ti = 1
    /\ after = None
    /\ all_results = <<>>
    /\ list_of_integration_item_metadata = <<>>
    /\ reqs = <<>>
    /\ pages = <<>>
    /\ log = <<>>
    /\ served = 0
    /\ faults = 0

NotMade == [raised |-> FALSE, item |-> NoItem]

Init ==
    /\ Idle
    /\ obj = None
    /\ endpoint = 1
    /\ made = NotMade

\* The OAuth flow: authorization, callbacks and retrievals, interleaved.
Next ==
    \/ \E p \in Pairs : authorize_hubspot(p[2], p[1])
    \/ \E i \in Callers, r \in Requests : CallbackStart(i, r[1], r[2])
    \/ \E i \in Callers : CallbackPost(i, 200, TokenBody(posts + 1))
    \/ \E i \in Callers : CallbackPost(i, 400, None)
    \/ \E i \in Callers : CallbackDelete(i)
    \/ \E i \in Callers : CallbackFinish(i)
    \/ \E j \in Callers, p \in Pairs : GetStart(j, p[2], p[1])
    \/ \E j \in Callers : GetDelete(j)

Spec == Init /\ [][Next]_vars

\* One call of get_items_hubspot against servers that answer as they like.
NextItems ==
    \/ \E credentials \in CredentialInputs : ItemsStart(credentials)
    \/ \E response \in Responses : FetchPage(response)
    \/ ConvertObjects

SpecItems == Init /\ [][NextItems]_vars

\* The values of a field of `properties`: a text, the empty text, JSON null.
FieldValues(text) == {Str(text), Str(<<>>), None}

\* The entries of `properties` under one field: none, or one of its values.
Field(name, text) ==
    {<<>>} \cup {<< <<name, value>> >> : value \in FieldValues(text)}

\* Records with id 42: contacts by their firstname, lastname and email, and
\* records of the other types by their name, domain, dealname and subject.
ConvertRecords ==
    { Dict(<< <<<<"i","d">>, Str(<<"4","2">>)>>, <<<<"p","r","o","p","e","r","t","i","e","s">>, Dict(f \o l \o e)>> >>) :
        f \in Field(<<"f","i","r","s","t","n","a","m","e">>, <<"A">>), l \in Field(<<"l","a","s","t","n","a","m","e">>, <<"B">>),
        e \in Field(<<"e","m","a","i","l">>, <<"a","@","b",".","c">>) }
    \cup
    { Dict(<< <<<<"i","d">>, Str(<<"4","2">>)>>, <<<<"p","r","o","p","e","r","t","i","e","s">>, Dict(n \o d \o dn \o s)>> >>) :
        n \in Field(<<"n","a","m","e">>, <<"N">>), d \in Field(<<"d","o","m","a","i","n">>, <<"d",".","i","o">>),
        dn \in Field(<<"d","e","a","l","n","a","m","e">>, <<"D","N">>), s \in Field(<<"s","u","b","j","e","c","t">>, <<"S">>) }

\* One record of one endpoint, to be converted.
InitConvert ==
    /\ Idle
    /\ obj \in ConvertRecords
    /\ endpoint \in DOMAIN object_types
    /\ made = NotMade

\* Lines 219-222: the record is converted as a record of its endpoint.
Convert ==
    /\ made = NotMade
    /\ made' = create_integration_item_metadata_object(
                   obj, ItemType(object_types[endpoint]))
    /\ UNCHANGED <<obj, endpoint>>
    /\ UNCHANGED <<ovars, avars>>

SpecConvert == InitConvert /\ [][Convert]_vars

\* Lines 166-175: fetch_hubspot_objects is called for the t-th object type.
FetchStart(t) ==
    /\ ipc = "idle"
    /\ ipc' = "fetch"
    /\ ti' = t
    /\ after' = None
    /\ all_results' = <<>>
    /\ UNCHANGED <<given, outcome, list_of_integration_item_metadata, reqs, pages,
                   log, served, faults>>
    /\ UNCHANGED <<ovars, cvars>>

\* Lines 177-199: one pass of the loop of fetch_hubspot_objects, with a
\* server that answers as it likes, any number of times, with no more than
\* MaxRecords records in all.  The call returns its records or raises; the
\* break of line 186 leaves `after` as the page before set it.
FetchRequest(response) ==
    /\ ipc = "fetch"
    /\ served + Len(FetchPass(<<>>, response).all_results) <= MaxRecords
    /\ LET r == FetchPass(all_results, response)
       IN  /\ ipc' = IF r.raised \/ r.done THEN "done" ELSE "fetch"
           /\ outcome' = IF r.raised THEN "Exception"
                         ELSE IF r.done THEN "Returned" ELSE outcome
           /\ after' = IF ~response.raises /\ response.status # 200
                       THEN after ELSE r.after
           /\ all_results' = r.all_results
    /\ served' = served + Len(FetchPass(<<>>, response).all_results)
    /\ UNCHANGED <<given, ti, list_of_integration_item_metadata, reqs, pages,
                   log, faults>>
    /\ UNCHANGED <<ovars, cvars>>

\* The responses with a status other than 200, and the pages with no
\* paging.next.after.
Final ==
    {response \in Responses :
        /\ ~response.raises
        /\ \/ response.status # 200
           \/ ~HasKey(GetOr(GetOr(response.data, <<"p","a","g","i","n","g">>, Dict(<<>>)),
                            <<"n","e","x","t">>, Dict(<<>>)), <<"a","f","t","e","r">>)}

NextFetch ==
    \/ \E t \in DOMAIN object_types : FetchStart(t)
    \/ \E response \in Responses : FetchRequest(response)

\* One call of fetch_hubspot_objects.  The loop goes on while it can, and the
\* server does not withhold a final response for ever.
SpecFetch ==
    /\ Init /\ [][NextFetch]_vars
    /\ WF_vars(\E response \in Final : FetchRequest(response))
(* ------------------------------- claims ------------------------------- *)

\* Whether the last step completed a callback that carried no error
\* parameter.
CallbackCompleted == ret.op = "callback" /\ ~Truthy(ret.cb.error)

RefusedAsAbsent(r) == r.outcome = "StateMismatch" /\ r.saved_state = None

\* C1 (as amended): after a callback that carried a state parameter has passed
\* the state check and run to completion, with the token exchange succeeded or
\* failed, a second callback with the identical state parameter and no error
\* parameter (and no authorize_hubspot call that wrote that state key in
\* between) fails with StateMismatch because the state key is absent.
C1_SingleUseAfterConsumption ==
    /\ \A i \in Callers : cb[i].pc = "gather" => ~cb[i].reuse
    /\ (CallbackCompleted /\ ret.cb.reuse) => RefusedAsAbsent(ret.cb)

\* C1 witness: a callback that reused a consumed state parameter has been
\* refused.
C1_Witness ==
    /\ CallbackCompleted /\ ret.cb.reuse
    /\ ret.cb.outcome = "StateMismatch"
    /\ ret.cb.state \in {Issued(n).state : n \in DOMAIN issued}

\* C1 as stated: after any callback with a well-formed state parameter has run
\* to completion, succeeded or failed, the next callback with the identical
\* state parameter fails with StateMismatch because the state key is absent.
C1_SingleUseAfterAnyCompletion ==
    /\ \A i \in Callers :
          (cb[i].pc = "gather" /\ WellFormed(cb[i].state)) => ~cb[i].again
    /\ (CallbackCompleted /\ ret.cb.again /\ WellFormed(ret.cb.state))
           => RefusedAsAbsent(ret.cb)

\* C2 as stated: of two callback invocations in progress that carry the same
\* state parameter, at most one has passed the state check and sent a
\* token-exchange request.
C2_AtMostOnePasses ==
    \A i \in Callers, j \in Callers :
        (i # j /\ cb[i].pc = "gather" /\ cb[j].pc = "gather"
               /\ cb[i].posted /\ cb[j].posted)
            => cb[i].state # cb[j].state

\* Whether a parseable state parameter names a key with no stored record, or
\* with a record whose token is another.
Unmatched(state) ==
    LET state_data == Loaded[state].v
        key == StateKey(Get(state_data, <<"o","r","g","_","i","d">>), Get(state_data, <<"u","s","e","r","_","i","d">>))
    IN  \/ key \notin DOMAIN store
        \/ Get(Loaded[Str(store[key])].v, <<"s","t","a","t","e">>) # Get(state_data, <<"s","t","a","t","e">>)

\* The requests that a step may have started a callback with: a callback
\* records its state and error parameters where it ends or where it waits.
Started ==
    {<<r.state, r.error>> : r \in {s \in {ret'.cb} \cup {cb'[i] : i \in Callers} : s.pc # "idle"}}

\* C3: a callback with no error parameter whose state parameter names an
\* (org_id, user_id) with no stored state record, or with a stored record whose
\* token differs from its own, fails with StateMismatch; the step sends no
\* token-exchange request, writes no credential and leaves the store as it was.
C3_AntiCsrf ==
    [][\A i \in Callers, r \in Started :
          ( /\ ~Truthy(r[2])
            /\ WellFormed(r[1])
            /\ Unmatched(r[1])
            /\ CallbackStart(i, r[1], r[2]) )
          => /\ ret'.op = "callback" /\ ret'.cb.outcome = "StateMismatch"
             /\ ret'.cb.state = r[1]
             /\ posts' = posts
             /\ store' = store
             /\ creds' = creds
             /\ cb' = cb]_vars

\* C3 witness: a callback was refused although a state record is stored under
\* the key it names.
C3_Witness ==
    /\ CallbackCompleted
    /\ ret.cb.outcome = "StateMismatch"
    /\ Truthy(ret.cb.saved_state)
    /\ posts = 0 /\ creds = <<>>

\* C4: the state parameter of the URL that authorize_hubspot returned is the
\* serialized record it stored; parsed as the callback parses it, it gives the
\* user_id and org_id of the call and the store key that was written; and while
\* that key holds the record, the state check passes.
C4_StateRoundTrip ==
    \A n \in DOMAIN issued :
        LET a == Issued(n)
            parsed == Loaded[a.state]
            saved_state == get_value_redis(store, a.key)
        IN  /\ a.state = Str(a.stored)
            /\ parsed.ok
            /\ Get(parsed.v, <<"u","s","e","r","_","i","d">>) = a.user_id
            /\ Get(parsed.v, <<"o","r","g","_","i","d">>) = a.org_id
            /\ KeyOfState(a.state) = a.key
            /\ saved_state = Str(a.stored)
                   => StateMatches(Get(parsed.v, <<"s","t","a","t","e">>), saved_state)

\* C4 witness: a callback that carried the state parameter of an issued URL,
\* whose identifiers hold quotes, spaces and URL delimiters, passed the state
\* check.
C4_Witness ==
    \E i \in Callers, n \in DOMAIN issued :
        /\ cb[i].pc = "gather"
        /\ cb[i].state = Issued(n).state
        /\ cb[i].org_id = Issued(n).org_id
        /\ cb[i].user_id = Str(<<"u","&","\\","+">>)

\* C5: the first get_hubspot_credentials call after a callback stored a
\* credential returns that credential and leaves the key deleted; a call that
\* follows a retrieval with no callback in between fails with NoCredentials.
C5_SingleRetrieval ==
    /\ (ret.op = "get" /\ ret.gc.first)
           => /\ ret.gc.outcome = "Returned"
              /\ ret.gc.credentials = ret.gc.body
              /\ CredentialsKey(ret.gc.org_id, ret.gc.user_id) \notin DOMAIN store
    /\ (ret.op = "get" /\ ret.gc.second) => ret.gc.outcome = "NoCredentials"
    /\ \A j \in Callers : gc[j].pc = "delete" => ~gc[j].second

\* C5 witness: a second retrieval in a row has failed.
C5_Witness ==
    /\ ret.op = "get" /\ ret.gc.second
    /\ ret.gc.outcome = "NoCredentials"
    /\ handoffs # EmptyBag

\* C6 as stated: one stored credential is returned by at most one
\* get_hubspot_credentials invocation.
C6_AtMostOneHandoff ==
    \A credential \in BagToSet(handoffs) : CopiesIn(credential, handoffs) = 1

\* Whether a page carries paging.next.after.
CarriesCursor(page) ==
    /\ HasKey(page.data, <<"p","a","g","i","n","g">>)
    /\ HasKey(Get(page.data, <<"p","a","g","i","n","g">>), <<"n","e","x","t">>)
    /\ HasKey(Get(Get(page.data, <<"p","a","g","i","n","g">>), <<"n","e","x","t">>), <<"a","f","t","e","r">>)

CursorOf(page) == Get(Get(Get(page.data, <<"p","a","g","i","n","g">>), <<"n","e","x","t">>), <<"a","f","t","e","r">>)

RECURSIVE ResultsOf(_)
ResultsOf(ps) ==
    IF ps = <<>> THEN <<>>
    ELSE GetOr(Head(ps).data, <<"r","e","s","u","l","t","s">>, List(<<>>)).d \o ResultsOf(Tail(ps))

\* C7 as stated: with every answer of status 200, the first request has no
\* `after` parameter, each later request has the cursor of the page before it,
\* the fetch goes on after every page that carries paging.next.after, whatever
\* the cursor, stops at the first page that carries none, and returns the
\* pages' results in order.
C7_Pagination ==
    (\A k \in DOMAIN pages : pages[k].status = 200) =>
        /\ \A k \in DOMAIN reqs :
              IF k = 1 THEN ~HasKey(reqs[k], <<"a","f","t","e","r">>)
              ELSE Get(reqs[k], <<"a","f","t","e","r">>) = CursorOf(pages[k - 1])
        /\ \A k \in DOMAIN pages :
              CarriesCursor(pages[k]) => (k < Len(pages) \/ ipc = "fetch")
        /\ \A k \in DOMAIN pages :
              ~CarriesCursor(pages[k]) => (k = Len(pages) /\ ipc = "convert")
        /\ ipc = "convert" => all_results = ResultsOf(pages)

\* Whether get_items_hubspot returned its list.
ItemsReturned == ipc = "done" /\ outcome = "Returned"

\* The items of the returned list that have the item type of the t-th object
\* type.
ItemsOfType(t) ==
    SelectSeq(list_of_integration_item_metadata,
              LAMBDA item : item.type = Str(ItemType(object_types[t])))

\* C8: when the fetch or the processing of an object type raises, the call
\* still goes through the object types that remain, fetching each, and returns
\* normally, and the returned list holds every item of every other type.
C8_PartialFailureIsolation ==
    /\ ipc \in {"fetch", "convert"} => (outcome = "" /\ Len(log) = ti - 1)
    /\ (ipc = "done" /\ log # <<>>) => ItemsReturned
    /\ ItemsReturned =>
          /\ Len(log) = Len(object_types)
          /\ \A t \in DOMAIN log :
                /\ log[t].fetched
                /\ log[t].raised = "" =>
                      ItemsOfType(t) =
                          [k \in DOMAIN log[t].objects |->
                              create_integration_item_metadata_object(
                                  log[t].objects[k], ItemType(object_types[t])).item]

\* C8 witness: the call returned; one object type raised, and the list holds
\* items of a type before it and of a type after it.
C8_Witness ==
    /\ ItemsReturned
    /\ \E s \in DOMAIN log, t \in DOMAIN log, u \in DOMAIN log :
          /\ s < t /\ t < u
          /\ log[t].raised # ""
          /\ log[s].raised = "" /\ ItemsOfType(s) # <<>>
          /\ log[u].raised = "" /\ ItemsOfType(u) # <<>>

\* C9 as stated: the returned list holds no item of an object type whose
\* processing raised.
C9_FailingTypeSkipped ==
    ItemsReturned =>
        \A t \in DOMAIN log : log[t].raised # "" => ItemsOfType(t) = <<>>

\* The singular of each object type's name.
Singular ==
    << <<"c","o","n","t","a","c","t">>, <<"c","o","m","p","a","n","y">>, <<"d","e","a","l">>, <<"t","i","c","k","e","t">>, <<"t","a","s","k">>, <<"c","a","l","l">>,
       <<"m","e","e","t","i","n","g">>, <<"n","o","t","e">>, <<"e","m","a","i","l">> >>

\* C10 as stated: every item made from a record with raw id r of the t-th
\* endpoint has the singular name of the endpoint as its type and
\* "r_<singular name>" as its id.
C10_SingularTypeAndId ==
    \A t \in DOMAIN log : \A k \in DOMAIN log[t].items :
        /\ log[t].items[k].type = Str(Singular[t])
        /\ log[t].items[k].id =
               Str(Format(Get(log[t].objects[k], <<"i","d">>)) \o <<"_">> \o Singular[t])

\* Whether the record converted has, in its properties, a non-empty text
\* under `name`; and that value.
Prop(name) == Get(GetOr(obj, <<"p","r","o","p","e","r","t","i","e","s">>, Dict(<<>>)), name)

Present(name) == Prop(name).t = "str" /\ Prop(name).s # <<>>

\* Whether the conversion of `obj` has ended with an item.
Made == made # NotMade /\ ~made.raised

\* The type names in the fallback names.
TypeLabel ==
    << <<"C","o","n","t","a","c","t">>, <<"C","o","m","p","a","n","y">>, <<"D","e","a","l">>, <<"T","i","c","k","e","t">>, <<"T","a","s","k">>, <<"C","a","l","l">>,
       <<"M","e","e","t","i","n","g">>, <<"N","o","t","e">>, <<"E","m","a","i","l">> >>

FallbackName == Str(TypeLabel[endpoint] \o <<" ">> \o Format(Get(obj, <<"i","d">>)))

\* C11 as stated: an item of the companies endpoint is named by
\* properties.name, else properties.domain, else "Company {id}"; one of the
\* deals endpoint by properties.dealname, else "Deal {id}"; one of any other
\* endpoint but contacts by properties.name, else properties.subject, else
\* "{Type} {id}"; an absent or empty field counts as missing.
C11_NonContactNames ==
    (Made /\ endpoint # 1) =>
        made.item.name =
            IF endpoint = 2
            THEN IF Present(<<"n","a","m","e">>) THEN Prop(<<"n","a","m","e">>)
                 ELSE IF Present(<<"d","o","m","a","i","n">>) THEN Prop(<<"d","o","m","a","i","n">>)
                 ELSE FallbackName
            ELSE IF endpoint = 3
            THEN IF Present(<<"d","e","a","l","n","a","m","e">>) THEN Prop(<<"d","e","a","l","n","a","m","e">>) ELSE FallbackName
            ELSE IF Present(<<"n","a","m","e">>) THEN Prop(<<"n","a","m","e">>)
                 ELSE IF Present(<<"s","u","b","j","e","c","t">>) THEN Prop(<<"s","u","b","j","e","c","t">>)
                 ELSE FallbackName

\* The text of a field if it is present, else the empty text.
TextOf(name) == IF Present(name) THEN Prop(name).s ELSE <<>>

\* C12 as stated: with firstname, lastname and email each a non-empty text,
\* the empty text, absent or null, a contact is named by the trimmed
\* concatenation of the firstname and lastname that are present when one of
\* them is, else by email when it is a non-empty text, else "Contact {id}".
C12_ContactName ==
    (Made /\ endpoint = 1) =>
        made.item.name =
            IF Present(<<"f","i","r","s","t","n","a","m","e">>) \/ Present(<<"l","a","s","t","n","a","m","e">>)
            THEN Str(Strip(TextOf(<<"f","i","r","s","t","n","a","m","e">>) \o <<" ">> \o TextOf(<<"l","a","s","t","n","a","m","e">>)))
            ELSE IF Present(<<"e","m","a","i","l">>) THEN Prop(<<"e","m","a","i","l">>)
            ELSE FallbackName

\* C13: a parsed credential, as get_hubspot_credentials returns it, is
\* accepted by get_items_hubspot: the call fails with MissingAccessToken
\* exactly when the credential has no access_token, and with no other error.
C13_ParsedCredentialAccepted ==
    (ipc # "idle" /\ given.t = "dict") =>
        /\ outcome # "Exception"
        /\ outcome = "MissingAccessToken" <=> ~Truthy(Get(given, <<"a","c","c","e","s","s","_","t","o","k","e","n">>))

\* C14: a callback with no error parameter whose state parameter is missing,
\* is no serialized record, or parses to something without the fields of a
\* state record, ends with the client error InvalidState.
C14_MalformedStateIsInvalidState ==
    (ret.op = "callback" /\ ret.cb.state \in Malformed /\ ~Truthy(ret.cb.error))
        => ret.cb.outcome = "InvalidState"

\* The store keys that hold credentials.
IsCredentialsKey(k) ==
    /\ Len(k) >= Len(<<"h","u","b","s","p","o","t","_","c","r","e","d","e","n","t","i","a","l","s",":">>)
    /\ SubSeq(k, 1, Len(<<"h","u","b","s","p","o","t","_","c","r","e","d","e","n","t","i","a","l","s",":">>)) = <<"h","u","b","s","p","o","t","_","c","r","e","d","e","n","t","i","a","l","s",":">>

\* The credential under key k is put there, or replaced, by the step.
Written(k) ==
    /\ k \in DOMAIN store'
    /\ IsCredentialsKey(k)
    /\ k \notin DOMAIN store \/ store'[k] # store[k]

\* The callback that ends in the step carried no error parameter, passed the
\* state check against the record it read under its identifiers, and got a
\* 200 token-exchange response.
ValidatedExchange ==
    /\ ret'.op = "callback" /\ ret'.cb.outcome = "Success"
    /\ ~Truthy(ret'.cb.error)
    /\ WellFormed(ret'.cb.state)
    /\ ret'.cb.org_id = Get(Loaded[ret'.cb.state].v, <<"o","r","g","_","i","d">>)
    /\ ret'.cb.user_id = Get(Loaded[ret'.cb.state].v, <<"u","s","e","r","_","i","d">>)
    /\ StateMatches(Get(Loaded[ret'.cb.state].v, <<"s","t","a","t","e">>), ret'.cb.saved_state)
    /\ ret'.cb.posted /\ ret'.cb.status = 200

\* C15: every step that writes a credential is the end of a callback that
\* carried no error parameter, passed the state check and received a 200
\* token-exchange response, and it writes that response body under the
\* identifiers of that callback; a callback that ends with
\* AuthorizationDenied, StateMismatch or TokenExchangeFailed writes none.
C15_CredentialsOnlyFromValidatedExchange ==
    [][\A k \in DOMAIN store' :
          Written(k) =>
              /\ ValidatedExchange
              /\ k = CredentialsKey(ret'.cb.org_id, ret'.cb.user_id)
              /\ store'[k] = Dumps(ret'.cb.body)]_vars

C15_Witness ==
    /\ ret.op = "callback" /\ ret.cb.outcome = "Success" /\ ret.cb.status = 200
    /\ CredentialsKey(ret.cb.org_id, ret.cb.user_id) \in DOMAIN store
    /\ store[CredentialsKey(ret.cb.org_id, ret.cb.user_id)] = Dumps(ret.cb.body)
    /\ posts >= 2

\* C16: authorize_hubspot calls for two distinct (org_id, user_id) pairs
\* keep their state records under distinct store keys.
C16_DistinctPairsDistinctKeys ==
    \A n \in 1..Len(issued) : \A k \in 1..Len(issued) :
        issued[n] # issued[k] => Issued(n).key # Issued(k).key

\* The fetch of the current object type got a non-200 page.
Refused == \E k \in DOMAIN pages : pages[k].status # 200

\* The pages before the last.
Front(ps) == SubSeq(ps, 1, Len(ps) - 1)

\* No record of the sequence makes the conversion raise.
Convertible(objects, t) ==
    \A k \in DOMAIN objects :
        ~create_integration_item_metadata_object(
             objects[k], ItemType(object_types[t])).raised

\* C17: a non-200 page is the last request of its object type, and the fetch
\* returns, without raising, the records of the pages before it; the next
\* step converts those records into items, appends them to the list, and goes
\* on to the next object type (or returns the list after the last), and a
\* call that returns has fetched every object type.
C17_NonOkPageEndsTypeOnly ==
    /\ [](Refused =>
            /\ ipc = "convert" /\ outcome = ""
            /\ \A k \in DOMAIN pages : pages[k].status # 200 <=> k = Len(pages)
            /\ Len(reqs) = Len(pages)
            /\ all_results = ResultsOf(Front(pages)))
    /\ [](ItemsReturned =>
            Len(log) = Len(object_types) /\ \A t \in DOMAIN log : log[t].fetched)
    /\ [][Refused =>
            /\ log' = Append(log, log'[Len(log')])
            /\ log'[Len(log')].objects = ResultsOf(Front(pages))
            /\ IF ti = Len(object_types) THEN ItemsReturned'
               ELSE ipc' = "fetch" /\ ti' = ti + 1 /\ reqs' = <<>> /\ outcome' = ""
            /\ Convertible(ResultsOf(Front(pages)), ti) =>
                  list_of_integration_item_metadata' =
                      list_of_integration_item_metadata \o
                      [k \in DOMAIN ResultsOf(Front(pages)) |->
                          create_integration_item_metadata_object(
                              ResultsOf(Front(pages))[k],
                              ItemType(object_types[ti])).item]]_vars

\* C17 witness: the second page of an object type is refused after a first
\* page with records, and the fetch has returned those records.
C17_Witness ==
    /\ ipc = "convert" /\ Len(pages) = 2
    /\ pages[2].status # 200 /\ pages[1].status = 200
    /\ all_results # <<>>
    /\ ti < Len(object_types)

\* No object type of the call raised.
NoException == \A t \in DOMAIN log : log[t].raised = ""

\* One item per record fetched for the object types 1..t, by object type and,
\* within a type, in the order the records were fetched.
RECURSIVE ItemsUpTo(_)
ItemsUpTo(t) ==
    IF t = 0 THEN <<>>
    ELSE ItemsUpTo(t - 1) \o
         [k \in DOMAIN log[t].objects |->
             create_integration_item_metadata_object(
                 log[t].objects[k], ItemType(object_types[t])).item]

\* C18: the object types are fetched one after another in the listed order,
\* the records of a type are kept by page and by position within the page,
\* and a call in which nothing raised returns one item per fetched record, by
\* object type, then page, then position.
C18_OrderAndCompleteness ==
    /\ ipc \in {"fetch", "convert"} => Len(log) = ti - 1
    /\ ipc = "fetch" => all_results = ResultsOf(pages)
    /\ ipc = "convert" =>
          all_results = ResultsOf(SelectSeq(pages, LAMBDA page : page.status = 200))
    /\ (ItemsReturned /\ NoException) =>
          /\ Len(log) = Len(object_types)
          /\ list_of_integration_item_metadata = ItemsUpTo(Len(log))

\* C18 witness: a call in which nothing raised returned two different items
\* made from the two records fetched for one object type.
C18_Witness ==
    /\ ItemsReturned /\ NoException
    /\ Len(list_of_integration_item_metadata) = 2
    /\ list_of_integration_item_metadata[1] # list_of_integration_item_metadata[2]
    /\ \E t \in DOMAIN log : Len(log[t].objects) = 2

\* The state parameters of the URLs that a later authorize_hubspot call for
\* the same (org_id, user_id) followed.
Superseded ==
    { Issued(n).state :
        n \in {k \in DOMAIN issued :
                  \E later \in DOMAIN issued : k < later /\ issued[k] = issued[later]} }

\* C19: the state record under the key of a pair never holds the token of a
\* URL that a later authorize_hubspot call for the pair followed, and a
\* callback with no error parameter that carries the state parameter of such
\* a URL fails the state check with StateMismatch.
C19_OnlyLatestStatePasses ==
    /\ [](\A n \in DOMAIN issued :
            (Issued(n).state \in Superseded /\ Issued(n).key \in DOMAIN store)
                => store[Issued(n).key] # Issued(n).stored)
    /\ [][\A i \in Callers, r \in Started :
            ( /\ ~Truthy(r[2])
              /\ r[1] \in Superseded
              /\ CallbackStart(i, r[1], r[2]) )
            => /\ ret'.op = "callback" /\ ret'.cb.outcome = "StateMismatch"
               /\ ret'.cb.state = r[1]
               /\ cb' = cb /\ posts' = posts]_vars

\* C19 witness: the callback of an earlier URL was refused while the record
\* of a later URL for the same pair was stored.
C19_Witness ==
    /\ CallbackCompleted
    /\ ret.cb.state \in Superseded
    /\ ret.cb.outcome = "StateMismatch"
    /\ Truthy(ret.cb.saved_state)
    /\ \E n \in DOMAIN issued :
          /\ ret.cb.saved_state = Str(Issued(n).stored)
          /\ <<ret.cb.org_id, ret.cb.user_id>> = issued[n]

\* C20: a call of fetch_hubspot_objects whose server eventually answers with
\* a status other than 200 or with a page without a next cursor ends; such a
\* response ends the call in the step that receives it, and no request
\* follows; and after a page with a cursor that counts as true the call sends
\* the next request with that cursor, however many pages came before and
\* whether or not the cursor is the one of the request before.
C20_PaginationTermination ==
    /\ (ipc = "fetch") ~> (ipc = "done")
    /\ [][ipc = "done" => ipc' = "done"]_vars
    /\ [][\A response \in Responses :
            FetchRequest(response) =>
                /\ response \in Final => ipc' = "done"
                /\ ( /\ ~response.raises /\ response.status = 200
                     /\ CarriesCursor(response) /\ Truthy(CursorOf(response)) )
                   => /\ ipc' = "fetch"
                      /\ after' = CursorOf(response)
                      /\ HasKey(FetchParams(after'), <<"a","f","t","e","r">>)
                      /\ Get(FetchParams(after'), <<"a","f","t","e","r">>) = CursorOf(response)]_vars

\* C20 witness: a call that went on after a page with records and a cursor
\* got a status other than 200 for the request that carried the cursor, and
\* returned the records.
C20_Witness ==
    /\ ipc = "done" /\ outcome = "Returned"
    /\ Truthy(after)
    /\ all_results # <<>>

====
